---- MODULE Spec2Model ----
(***************************************************************************)
(* Model of the correlated request/reply orchestration of tapi_llm_bot:    *)
(* the bot gateway's portfolio handlers (show_portfolio, accounts_done),   *)
(* its waiter registry pending_portfolio_updates and its                   *)
(* portfolio_updated_consumer, the portfolio_service worker and the        *)
(* storage_service consumer of PORTFOLIO_UPDATED; then the other consumer  *)
(* loops (quotes_service, the gateway's notifications_consumer, the three  *)
(* loops of summary_service) and the scheduler_service, each under a       *)
(* specification of its own.                                               *)
(*                                                                         *)
(* Every topic is modelled as one ordered log (one partition); each        *)
(* consumer group has its own offset into it.  An asyncio task is a        *)
(* process whose program counter advances at its await points.             *)
(***************************************************************************)
EXTENDS Integers, Sequences, FiniteSets, TLC

\* ---------------------------------------------------------------- bounds
\* Number of PORTFOLIO_REQUEST commands the log holds: the commands of the two
\* handler invocations and those of other producers together.
MaxRequests == 2

\* Number of QUOTES_REQUEST commands the log holds.
MaxQuoteRequests == 3

\* Number of NOTIFICATIONS_OUTBOUND envelopes the log holds.
MaxNotifications == 3

\* Number of requests each of SUMMARY_REQUEST, NEWS_REQUEST, DAILY_REQUEST holds.
MaxSummaryRequests == 2

\* Number of commands the gateway's handlers that do not wait (summary_request,
\* show_news, show_quotes) publish together.
MaxCommands == 3

\* Largest value of the parameter `retries` of create_producer / create_consumer.
MaxRetries == 5
\* Minutes of wall-clock time observed, and the longest tick in units of ten seconds.
MaxMinutes == 4
MaxTickUnits == 3
\* Longest list of positions in an event given to write_rows on its own.
MaxPositions == 3

\* ------------------------------------------------------------- constants
\* Two invocations of the portfolio handlers (show_portfolio / accounts_done), which
\* may run concurrently.
Handlers == {1, 2}
\* Telegram user ids (positive integers); the handler invocations are of user 1,
\* other producers' commands are of both.
Users == {1, 2}
GatewayUsers == {1}
\* A missing / falsy user_id in a payload (data.get("user_id") -> None).
NoUser == 0
\* A missing correlation_id, and a missing token.
None == "None"
\* The values uuid.uuid4() returns, in the order of first use.
IdSeq == <<"u1", "u2", "u3", "u4">>
OwnIds == {IdSeq[i] : i \in 1..Len(IdSeq)}
\* Correlation ids generated by another gateway instance.
ForeignIds == {"x1"}
AllIds == OwnIds \cup ForeignIds
\* Index of "no future" in the registry and in awaited.
NoFut == 0

Pos(t, q) == [ticker |-> t, quantity |-> q]
\* What the brokerage can return for a user's accounts: a list of positions;
\* a ticker may repeat over accounts, a position may lack its ticker.
Snapshots == { <<Pos("A", 1), Pos("B", 2), Pos("A", 3), Pos("", 4)>> }

VARIABLES
  hpc,        \* handler -> program counter
  hkind,      \* handler -> "none" | "show" (show_portfolio) | "done" (accounts_done)
  huser,      \* handler -> user id of the update
  hcorr,      \* handler -> corr_id (None before uuid4)
  fut,        \* handler -> state of the asyncio.Future it created
  awaited,    \* handler -> the future pending_portfolio_updates.get(corr_id) gave to wait_for
  outcome,    \* handler -> how it got to render / ended
  renders,    \* handler -> number of render_and_send_portfolio invocations
  shown,      \* handler -> what the last render read and sent
  pending,    \* pending_portfolio_updates: correlation id -> future (by creating handler)
  idsIssued,  \* number of uuid4() calls so far
  reqTopic,   \* PORTFOLIO_REQUEST log
  updTopic,   \* PORTFOLIO_UPDATED log
  notifTopic, \* NOTIFICATIONS_OUTBOUND log (storage_service's notifications)
  psOff, psState,         \* portfolio_service worker: offset, loop state
  gwOff, gwState,         \* gateway portfolio_updated_consumer: offset, loop state
  stOff, stState,         \* storage_service consume_portfolio_updates: offset, loop state
  store,      \* portfolio table: user -> set of rows
  quotesReq,  \* QUOTES_REQUEST log
  quotesUpd,  \* QUOTES_UPDATED log
  qsOff, qsState,         \* quotes_service worker: offset, loop state
  ncOff, ncState,         \* gateway notifications_consumer: offset, loop state
  delivered,  \* bot.send_message calls of notifications_consumer that succeeded
  undelivered,\* bot.send_message calls of notifications_consumer that raised
  sumPc,      \* summary_service: handler task -> program counter
  sumPub,     \* summary_service: handler task -> messages published to its topic
  sumOff,     \* summary_service: handler task -> offset into its topic
  sumOut,     \* summary_service: handler task -> notifications it published
  sumLoop,    \* summary_service: the task that runs on the event loop without yielding
  sumWorker,  \* summary_service: worker() at gather / after gather raised
  sumShape,   \* summary_service: handler task -> shape of the payload it received last
  scPc,       \* scheduler_service: program counter of run_forever / tick_once
  scDue,      \* scheduler_service: user_ids of the current tick
  scIdx,      \* scheduler_service: index of `for uid in user_ids`
  scIssued,   \* scheduler_service: SUMMARY_REQUEST commands published in the current tick
  scFailAt,   \* scheduler_service: where the last tick_once raised (until /notify answers again)
  summaryReq, \* SUMMARY_REQUEST commands published by the gateway's summary_request
  newsReq,    \* NEWS_REQUEST commands published by the gateway's show_news
  cnPc,       \* create_producer / create_consumer: position of one call
  cnKind,     \* ... which of the two functions was called
  cnRetries,  \* ... its parameter `retries`
  cnAttempt,  \* ... number of start() calls made
  cnLastErr,  \* ... last_err: the attempt whose exception it holds (0: None)
  cnStarted,  \* ... whether a start() call on the handle succeeded
  lcUnit,     \* life of one consumer loop: the coroutine that hosts it
  lcPc,       \* ... its position
  lcIdx,      \* ... index of the handle it creates / stops next
  lcCreated,  \* ... handles that create_consumer / create_producer returned
  lcStops,    \* ... handle -> number of stop() calls on it
  lcProc,     \* ... the service's process: "up" | "exited"
  lcWhy,      \* ... why the coroutine ended
  lcAbandoned, \* ... whether a message was in processing when the loop was left
  clkPc,      \* scheduler on the wall clock: position of run_forever
  clkNow,     \* ... the time, in units of ten seconds
  clkQueried, \* ... minute -> number of ticks that queried /notify with it
  gtPc,       \* bot_gateway: quotes_consumer / notifications_consumer -> position
  wrPc,       \* write_rows on its own: "idle" | "called"
  wrIn,       \* ... the positions of the event
  wrOut       \* ... the rows of the user in the table

hvars == <<hpc, hkind, huser, hcorr, fut, awaited, outcome, renders, shown>>
busvars == <<reqTopic, updTopic, notifTopic>>
psvars == <<psOff, psState>>
gwvars == <<gwOff, gwState>>
stvars == <<stOff, stState, store>>
qsvars == <<quotesReq, quotesUpd, qsOff, qsState>>
ncvars == <<ncOff, ncState, delivered, undelivered>>
sumvars == <<sumPc, sumPub, sumOff, sumOut, sumLoop, sumWorker, sumShape>>
scvars == <<scPc, scDue, scIdx, scIssued, scFailAt>>
\* The state of the portfolio workflow, and the state of the other services.
corevars == <<hvars, pending, idsIssued, busvars, psvars, gwvars, stvars>>
cmdvars == <<summaryReq, newsReq>>
\* The state added for the commands nobody waits for.
cnvars == <<cnPc, cnKind, cnRetries, cnAttempt, cnLastErr, cnStarted>>
lcvars == <<lcUnit, lcPc, lcIdx, lcCreated, lcStops, lcProc, lcWhy, lcAbandoned>>
clkvars == <<clkPc, clkNow, clkQueried>>
gtvars == <<gtPc>>
wrvars == <<wrPc, wrIn, wrOut>>
yvars == <<cmdvars, cnvars, lcvars, clkvars, gtvars, wrvars>>

\* The consumer tasks of the gateway beside portfolio_updated_consumer.
OtherConsumers == {"quotes_consumer", "notifications_consumer"}

\* The names of the handles a loop's coroutine creates.
HandleNames == {"cons", "news_cons", "daily_cons", "prod"}
xvars == <<qsvars, ncvars, sumvars, scvars, yvars>>
vars == <<corevars, xvars>>

\* The handler tasks of summary_service.
Tasks == {"summary", "news", "daily"}
\* No task holds the event loop (every task is suspended at an await).
NoTask == "NoTask"
\* tick_once raised nowhere / raised outside the loop over user_ids.
NoFailure == 0
OutsideLoop == -1

NoShown == [read |-> FALSE, rows |-> {}, sent |-> FALSE]

InitState ==
  /\ hpc = [h \in Handlers |-> "idle"]
  /\ hkind = [h \in Handlers |-> "none"]
  /\ huser = [h \in Handlers |-> NoUser]
  /\ hcorr = [h \in Handlers |-> None]
  /\ fut = [h \in Handlers |-> "none"]
  /\ awaited = [h \in Handlers |-> NoFut]
  /\ outcome = [h \in Handlers |-> "none"]
  /\ renders = [h \in Handlers |-> 0]
  /\ shown = [h \in Handlers |-> NoShown]
  /\ pending = [c \in AllIds |-> NoFut]
  /\ idsIssued = 0
  /\ reqTopic = <<>>
  /\ updTopic = <<>>
  /\ notifTopic = <<>>
  /\ psOff = 0 /\ psState = "running"
  /\ gwOff = 0 /\ gwState = "running"
  /\ stOff = 0 /\ stState = "running"
  /\ quotesReq = <<>> /\ quotesUpd = <<>>
  /\ qsOff = 0 /\ qsState = "running"
  /\ ncOff = 0 /\ ncState = "running"
  /\ delivered = {} /\ undelivered = {}
  /\ sumPc = [t \in Tasks |-> "receive"]
  /\ sumShape = [t \in Tasks |-> "valid"]
  /\ sumPub = [t \in Tasks |-> 0]
  /\ sumOff = [t \in Tasks |-> 0]
  /\ sumOut = [t \in Tasks |-> 0]
  /\ sumLoop = NoTask
  /\ sumWorker = "gather"
  /\ scPc = "start"
  /\ scDue = <<>> /\ scIdx = 0 /\ scIssued = <<>> /\ scFailAt = NoFailure
  /\ summaryReq = <<>> /\ newsReq = <<>>
  /\ cnPc = "idle" /\ cnKind = "none" /\ cnRetries = 0
  /\ cnAttempt = 0 /\ cnLastErr = 0 /\ cnStarted = FALSE
  /\ lcUnit = "none" /\ lcPc = "idle" /\ lcIdx = 0
  /\ lcCreated = {} /\ lcStops = [x \in HandleNames |-> 0]
  /\ lcProc = "up" /\ lcWhy = "none" /\ lcAbandoned = FALSE
  /\ clkPc = "boot" /\ clkNow = 0 /\ clkQueried = [m \in 0..MaxMinutes |-> 0]
  /\ gtPc = [c \in OtherConsumers |-> "receive"]
  /\ wrPc = "idle" /\ wrIn = <<>> /\ wrOut = {}

\* All processes started, nothing published; user 1 has one position stored.
Init ==
  /\ InitState
  /\ store = [u \in Users |-> IF u = 1 THEN {Pos("B", 5)} ELSE {}]

\* ------------------------------------------- storage_service: write_rows

RECURSIVE AggFold(_, _, _)
\* write_rows' loop over positions[i..]: agg maps a ticker to its summed quantity.
AggFold(positions, i, agg) ==
  IF i > Len(positions) THEN agg
  ELSE LET t == positions[i].ticker
           qty == positions[i].quantity
       IN IF t = "" THEN AggFold(positions, i + 1, agg)
          ELSE IF t \in DOMAIN agg
            THEN AggFold(positions, i + 1, [agg EXCEPT ![t] = @ + qty])
            ELSE AggFold(positions, i + 1,
                         [x \in DOMAIN agg \cup {t} |-> IF x = t THEN qty ELSE agg[x]])

\* Mutant: a repeated ticker overwrites its row instead of adding to it.
write_rows_overwrite(positions) ==
  { Pos(positions[i].ticker, positions[i].quantity) :
      i \in { k \in 1..Len(positions) :
                /\ positions[k].ticker # ""
                /\ \A j \in (k + 1)..Len(positions) : positions[j].ticker # positions[k].ticker } }

\* The rows write_rows inserts after deleting the user's rows.
write_rows(positions) ==
  LET agg == AggFold(positions, 1, [x \in {} |-> 0])
  IN {Pos(t, agg[t]) : t \in DOMAIN agg}

\* ------------------------------------------------------ bot_gateway: handlers

\* show_portfolio: `if accounts and user_token`; accounts_done: the else/else branch.
PreconditionsOk(cfg) == cfg.accounts /\ cfg.token

\* uuid.uuid4(): a value that was not returned before.
uuid4 == {IdSeq[i] : i \in {idsIssued + 1} \cap (1..Len(IdSeq))}

\* Mutant: show_portfolio without its outer try/except, as accounts_done is written.
OnExceptionUncaught(h, kind) ==
  /\ hpc' = [hpc EXCEPT ![h] = "raised"]
  /\ outcome' = [outcome EXCEPT ![h] = "raised"]

\* Where an exception raised inside the handler body ends: show_portfolio's outer
\* `except Exception` renders; accounts_done has no handler, the exception leaves it.
OnException(h, kind) ==
  IF kind = "show"
    THEN /\ hpc' = [hpc EXCEPT ![h] = "render"]
         /\ outcome' = [outcome EXCEPT ![h] = "except"]
    ELSE /\ hpc' = [hpc EXCEPT ![h] = "raised"]
         /\ outcome' = [outcome EXCEPT ![h] = "raised"]

\* The values uuid4() returned so far.
IssuedIds == {IdSeq[i] : i \in 1..idsIssued}

\* Mutant: the future is created but not put into the registry before the send.
InsertWaiterForgotten(reg, c, h) == reg

\* pending_portfolio_updates[corr_id] = fut
InsertWaiter(reg, c, h) == [reg EXCEPT ![c] = h]

\* Mutant: show_portfolio ends without the fallback render, as accounts_done does.
FallbackSkipsRender == "done"

\* Where show_portfolio goes when accounts or token are missing: the fallback render.
FallbackStep == "render"

\* The handler starts: it reads selected accounts and token from the store (cfg) and
\* checks the preconditions; with them it creates the producer, takes
\* corr_id = str(uuid.uuid4()), creates the future, registers it and enters
\* send_and_wait. ok = FALSE: a store request or create_producer() raised.
Invoke(h, kind, u, cfg, ok, c) ==
  /\ UNCHANGED xvars
  /\ hpc[h] = "idle"
  /\ \A g \in Handlers : g < h => hpc[g] # "idle"   \* invocations are numbered in order of arrival
  /\ hkind' = [hkind EXCEPT ![h] = kind]
  /\ huser' = [huser EXCEPT ![h] = u]
  /\ IF ~ok
       THEN /\ OnException(h, kind)
            /\ UNCHANGED <<hcorr, fut, pending, idsIssued>>
       ELSE IF PreconditionsOk(cfg)
         THEN /\ hcorr' = [hcorr EXCEPT ![h] = c]
              /\ fut' = [fut EXCEPT ![h] = "pending"]
              /\ pending' = InsertWaiter(pending, c, h)
              /\ idsIssued' = idsIssued + 1
              /\ hpc' = [hpc EXCEPT ![h] = "send"]
              /\ outcome' = outcome
         ELSE /\ UNCHANGED <<hcorr, fut, pending, idsIssued>>
              /\ IF kind = "show"
                   THEN \* fallback: show the current state
                        /\ hpc' = [hpc EXCEPT ![h] = FallbackStep]
                        /\ outcome' = [outcome EXCEPT ![h] = "fallback"]
                   ELSE \* accounts_done answers with a hint and ends
                        /\ hpc' = [hpc EXCEPT ![h] = "done"]
                        /\ outcome' = [outcome EXCEPT ![h] =
                               IF ~cfg.accounts THEN "empty_accounts" ELSE "no_token"]
  /\ UNCHANGED <<awaited, renders, shown, busvars, psvars, gwvars, stvars>>

\* key=str(user_id).encode(); portfolio_service: `... if user_id else None`
Key(u) == IF u # NoUser THEN ToString(u) ELSE None

Request(u, c, tok) ==
  [user_id |-> u, correlation_id |-> c, token |-> tok, key |-> Key(u)]

\* await prod.send_and_wait(PORTFOLIO_REQUEST, ...) ends; finally: prod.stop()
Send(h, ok) ==
  /\ UNCHANGED xvars
  /\ hpc[h] = "send"
  /\ IF ok
       THEN /\ Len(reqTopic) < MaxRequests
            /\ reqTopic' = Append(reqTopic, Request(huser[h], hcorr[h], "tok"))
            /\ hpc' = [hpc EXCEPT ![h] = "answer"]
            /\ outcome' = outcome
       ELSE /\ reqTopic' = reqTopic
            /\ OnException(h, hkind[h])
  /\ UNCHANGED <<hkind, huser, hcorr, fut, awaited, renders, shown,
                 pending, idsIssued, updTopic, notifTopic,
                 psvars, gwvars, stvars>>

\* Mutant: the inner handler is `except asyncio.TimeoutError`, which lets the
\* TypeError of wait_for(None) go.
NoFutureRaises == "raised"

\* Where the handler goes when pending_portfolio_updates.get(corr_id) is None:
\* wait_for(None, 15.0) raises TypeError at once, `except Exception: pass` drops it
\* and the render follows.
NoFutureStep == "render"

\* await message.answer(...) ends, then asyncio.wait_for(pending.get(corr_id), 15.0)
\* is entered: wait_for(None) raises TypeError, which `except Exception: pass` drops.
Answer(h, ok) ==
  /\ UNCHANGED xvars
  /\ hpc[h] = "answer"
  /\ IF ~ok
       THEN /\ awaited' = awaited
            /\ OnException(h, hkind[h])
       ELSE IF pending[hcorr[h]] = NoFut
         THEN /\ awaited' = awaited
              /\ hpc' = [hpc EXCEPT ![h] = NoFutureStep]
              /\ outcome' = [outcome EXCEPT ![h] = "nofuture"]
         ELSE /\ awaited' = [awaited EXCEPT ![h] = pending[hcorr[h]]]
              /\ hpc' = [hpc EXCEPT ![h] = "wait"]
              /\ outcome' = outcome
  /\ UNCHANGED <<hkind, huser, hcorr, fut, renders, shown,
                 pending, idsIssued, busvars, psvars, gwvars, stvars>>

\* wait_for returns the future's result.
WaitResolved(h) ==
  /\ UNCHANGED xvars
  /\ hpc[h] = "wait"
  /\ fut[awaited[h]] = "finished"
  /\ hpc' = [hpc EXCEPT ![h] = "render"]
  /\ outcome' = [outcome EXCEPT ![h] = "resolved"]
  /\ UNCHANGED <<hkind, huser, hcorr, fut, awaited, renders, shown,
                 pending, idsIssued, busvars, psvars, gwvars, stvars>>

\* Mutant: the future is shielded from the timeout (wait_for(asyncio.shield(fut))).
ShieldedTimeout(st) == st

\* What wait_for does to the future when the timeout elapses: it cancels it.
TimeoutEffect(st) == IF st = "pending" THEN "cancelled" ELSE st

\* The 15 s elapse with the future not done: wait_for cancels it and raises
\* TimeoutError, which `except Exception: pass` drops. The registry is not touched.
WaitTimeout(h) ==
  /\ UNCHANGED xvars
  /\ hpc[h] = "wait"
  /\ fut[awaited[h]] = "pending"
  /\ fut' = [fut EXCEPT ![awaited[h]] = TimeoutEffect(@)]
  /\ hpc' = [hpc EXCEPT ![h] = "render"]
  /\ outcome' = [outcome EXCEPT ![h] = "timeout"]
  /\ UNCHANGED <<hkind, huser, hcorr, awaited, renders, shown,
                 pending, idsIssued, busvars, psvars, gwvars, stvars>>

\* The awaited future was cancelled by another waiter's timeout: CancelledError is
\* no Exception, it leaves the handler.
WaitCancelled(h) ==
  /\ UNCHANGED xvars
  /\ hpc[h] = "wait"
  /\ fut[awaited[h]] = "cancelled"
  /\ hpc' = [hpc EXCEPT ![h] = "raised"]
  /\ outcome' = [outcome EXCEPT ![h] = "cancelled"]
  /\ UNCHANGED <<hkind, huser, hcorr, fut, awaited, renders, shown,
                 pending, idsIssued, busvars, psvars, gwvars, stvars>>

\* GET /users/{user_id}/portfolio: the rows of the user.
get_portfolio(u) == store[u]

\* Mutant: the renderer shows the positions of the completion event that resolved
\* the wait instead of reading the store.
RenderFromPayload(h) ==
  LET ev == {i \in 1..gwOff : updTopic[i].correlation_id = hcorr[h]}
  IN IF outcome[h] = "resolved" /\ ev # {}
       THEN write_rows(updTopic[CHOOSE i \in ev : TRUE].positions)
       ELSE get_portfolio(huser[h])

\* What render_and_send_portfolio shows: the store's answer at the time of the call.
RenderSource(h) == get_portfolio(huser[h])

\* After render_and_send_portfolio: `return` (show_portfolio), call.answer()
\* (accounts_done): the handler ends.
AfterRender(h) == "done"

\* `if lines: ... await bot.send_message(...)`: there is one line per stored position
\* (security or RUB), and the message is sent only if there is a line. A chart
\* service that cannot be reached only turns a price into "n/a".
SendsMessage(rows) == rows # {}

\* render_and_send_portfolio: reads the store (ok) or fails inside its own
\* try/except; sends one message if there is a line to show.
Render(h, ok) ==
  /\ UNCHANGED xvars
  /\ hpc[h] = "render"
  /\ renders' = [renders EXCEPT ![h] = @ + 1]
  /\ shown' = [shown EXCEPT ![h] =
                 IF ok THEN [read |-> TRUE, rows |-> RenderSource(h),
                             sent |-> SendsMessage(RenderSource(h))]
                       ELSE NoShown]
  /\ hpc' = [hpc EXCEPT ![h] = AfterRender(h)]
  /\ UNCHANGED <<hkind, huser, hcorr, fut, awaited, outcome,
                 pending, idsIssued, busvars, psvars, gwvars, stvars>>

\* ------------------------------------- bot_gateway: portfolio_updated_consumer

\* Mutant: pending_portfolio_updates.pop(corr_id), which raises KeyError on a missing key.
PopRaisesKeyError(c) == pending[c] = NoFut

\* pending_portfolio_updates.pop(corr_id, None): the default makes a missing key no error.
PopRaises(c) == FALSE

\* Mutant: `if fut: fut.set_result(True)`, which raises InvalidStateError on a
\* future that is done.
ResolveWaiterNaive(st) ==
  IF st = "pending" THEN [state |-> "finished", raised |-> FALSE]
                    ELSE [state |-> st, raised |-> TRUE]

\* Mutant: the popped future is dropped without a result.
ResolveWaiterDropped(st) == [state |-> st, raised |-> FALSE]

\* `if fut and not fut.done(): try: fut.set_result(True) except Exception: pass`
\* applied to a popped future in state st: the future's new state, and whether an
\* exception leaves the statement.
ResolveWaiter(st) ==
  IF st = "pending" THEN [state |-> "finished", raised |-> FALSE]
                    ELSE [state |-> st, raised |-> FALSE]

\* One iteration of `async for msg in cons` of portfolio_updated_consumer.
GwConsume ==
  /\ UNCHANGED xvars
  /\ gwState = "running"
  /\ gwOff < Len(updTopic)
  /\ gwOff' = gwOff + 1
  /\ LET msg == updTopic[gwOff + 1]
         c == msg.correlation_id
         f == IF c = None THEN NoFut ELSE pending[c]
         r == IF f = NoFut THEN [state |-> "none", raised |-> FALSE]
                           ELSE ResolveWaiter(fut[f])
     IN IF c = None
          THEN \* `if not corr_id: continue`
               UNCHANGED <<pending, fut, gwState>>
          ELSE IF f = NoFut /\ PopRaises(c)
            THEN \* KeyError ends the loop; finally: cons.stop()
                 /\ gwState' = "dead"
                 /\ UNCHANGED <<pending, fut>>
            ELSE /\ pending' = [pending EXCEPT ![c] = NoFut]
                 /\ fut' = IF f = NoFut THEN fut ELSE [fut EXCEPT ![f] = r.state]
                 /\ gwState' = IF r.raised THEN "dead" ELSE "running"
  /\ UNCHANGED <<hpc, hkind, huser, hcorr, awaited, outcome, renders, shown,
                 idsIssued, busvars, psvars, stvars>>

\* ------------------------------------------------- portfolio_service: worker

\* TinkoffClient(token).get_portfolio(accounts): the positions, or an exception
\* (no token, brokerage failure), which the worker turns into [].
FetchResults(msg) == IF msg.token = None THEN {<<>>} ELSE Snapshots \cup {<<>>}

\* Mutant: the completion is published without the request's correlation id.
CompletionDropsCorrelation(msg, portfolio) ==
  [user_id |-> msg.user_id, positions |-> portfolio,
   correlation_id |-> None, key |-> Key(msg.user_id)]

\* Mutant: the completion is built from the first request the worker ever took.
CompletionOfFirst(msg, portfolio) ==
  [user_id |-> reqTopic[1].user_id, positions |-> portfolio,
   correlation_id |-> reqTopic[1].correlation_id, key |-> Key(reqTopic[1].user_id)]

\* The PORTFOLIO_UPDATED envelope built for a request.
Completion(msg, portfolio) ==
  [user_id |-> msg.user_id, positions |-> portfolio,
   correlation_id |-> msg.correlation_id, key |-> Key(msg.user_id)]

\* Mutant: the client is constructed before the try, as quotes_service does it:
\* the ValueError of a missing token leaves the loop.
ClientOutsideTry(msg) == msg.token = None

\* Whether an exception of the work (TinkoffClient(token), get_portfolio) leaves the
\* loop body: both are inside `try: ... except Exception: portfolio = []`.
WorkRaises(msg) == FALSE

\* One iteration of `async for msg in cons` of worker: the request is taken, the
\* portfolio fetched ([] on an exception), and the completion published with
\* send_and_wait; a publish that raises ends the loop (finally: cons.stop(),
\* prod.stop()).
PsConsume(portfolio, ok) ==
  /\ UNCHANGED xvars
  /\ psState = "running"
  /\ psOff < Len(reqTopic)
  /\ portfolio \in FetchResults(reqTopic[psOff + 1])
  /\ psOff' = psOff + 1
  /\ IF ok /\ ~WorkRaises(reqTopic[psOff + 1])
       THEN /\ updTopic' = Append(updTopic, Completion(reqTopic[psOff + 1], portfolio))
            /\ psState' = "running"
       ELSE /\ updTopic' = updTopic
            /\ psState' = "dead"
  /\ UNCHANGED <<hvars, pending, idsIssued, reqTopic, notifTopic,
                 gwvars, stvars>>

\* ------------------------------- storage_service: consume_portfolio_updates

\* Mutant: the new rows are added to the rows the user has.
MergeRows(old, new) == old \cup new

\* Mutant: the rows are inserted without the delete, and only for a user without rows.
InsertIfAbsent(old, new) == IF old = {} THEN new ELSE old

\* The transaction of write_rows on the rows of the user: `portfolio.delete().where(
\* user_id == user_id)`, then the insert of the aggregated rows.
ReplaceRows(old, new) == new

\* Mutant: the notification is published without the try/except around it.
NotifyFailureUncaught == TRUE

\* Whether an exception of the notification's send_and_wait leaves the loop body: it
\* is inside `try: ... except Exception: logger.warning(...)`.
NotifyFailureRaises == FALSE

\* One iteration of `async for msg in cons` of consume_portfolio_updates: the rows of
\* the user are replaced (or the database raises and the loop ends), then the
\* notification is published, a failure of which is only logged.
StConsume(dbOk, notifOk) ==
  /\ UNCHANGED xvars
  /\ stState = "running"
  /\ stOff < Len(updTopic)
  /\ LET msg == updTopic[stOff + 1]
     IN IF msg.user_id = NoUser
          THEN \* `if not user_id: continue`
               /\ stOff' = stOff + 1
               /\ UNCHANGED <<stState, store, notifTopic>>
          ELSE IF ~dbOk
            THEN /\ stState' = "dead"
                 /\ UNCHANGED <<stOff, store, notifTopic>>
            ELSE /\ stOff' = stOff + 1
                 /\ store' = [store EXCEPT ![msg.user_id] =
                                ReplaceRows(@, write_rows(msg.positions))]
                 /\ notifTopic' =
                      IF notifOk
                        THEN Append(notifTopic,
                               [user_id |-> msg.user_id, key |-> Key(msg.user_id),
                                items |-> 1,
                                inserted |-> Cardinality(write_rows(msg.positions))])
                        ELSE notifTopic
                 /\ stState' = IF ~notifOk /\ NotifyFailureRaises THEN "dead" ELSE stState
  /\ UNCHANGED <<hvars, pending, idsIssued, reqTopic, updTopic,
                 psvars, gwvars>>

\* --------------------------------------------------------------- environment

\* The commands another producer (another gateway instance, an earlier run of this
\* one) publishes: a correlation id that is not of this process, or none; a payload
\* without token or user id.
ForeignRequests ==
  { Request(2, "x1", "tok"), Request(NoUser, None, None) }

ForeignRequest(req) ==
  /\ UNCHANGED xvars
  /\ Len(reqTopic) < MaxRequests
  /\ reqTopic' = Append(reqTopic, req)
  /\ UNCHANGED <<hvars, pending, idsIssued, updTopic, notifTopic, psvars, gwvars, stvars>>

\* ------------------------------------------------ persisted state of a user

\* The portfolio rows a user can have in the store: none, a security, only cash.
StoredPortfolios == { {}, {Pos("B", 5)}, {Pos("RUB", 7)} }

\* All processes started, nothing published; any persisted portfolios.
InitStored ==
  /\ InitState
  /\ store \in [Users -> StoredPortfolios]

\* The tickers of the rows that are no cash:
\* `p.get("ticker") and p.get("ticker") not in {"RUB","RUB000UTSTOM"}`.
\* (A stored security row has its figi; show_quotes collects the figis of the same rows.)
Securities(rows) == {r.ticker : r \in rows} \ {"", "RUB", "RUB000UTSTOM"}

\* ------------------------------------------- bot_gateway: show_quotes

\* show_quotes of user u whose stored token is tok (None: no token row): without
\* figis it answers and returns; else it publishes the QUOTES_REQUEST with the
\* token as it is. ok = FALSE: send_and_wait raised, nothing is published.
show_quotes(u, tok, ok) ==
  /\ UNCHANGED <<corevars, yvars, ncvars, sumvars, scvars>>
  /\ Len(quotesReq) < MaxQuoteRequests
  /\ quotesReq' =
       IF Securities(get_portfolio(u)) # {} /\ ok
         THEN Append(quotesReq, [user_id |-> u, figis |-> Securities(get_portfolio(u)),
                                 token |-> tok, key |-> Key(u)])
         ELSE quotesReq
  /\ UNCHANGED <<quotesUpd, qsOff, qsState>>

\* ------------------------------------------------- quotes_service: worker

\* `client = TinkoffClient(token_override)` stands before the try: the ValueError of
\* a missing token is raised in the loop body itself.
ClientRaises(msg) == msg.token = None

\* One iteration of `async for msg in cons` of worker: the client is constructed
\* (an exception of which ends the loop; finally: cons.stop(), prod.stop()), the
\* prices are fetched ({} on an exception of get_last_prices) and QUOTES_UPDATED is
\* published; a publish that raises ends the loop.
QsConsume(prices, ok) ==
  /\ UNCHANGED <<corevars, yvars, ncvars, sumvars, scvars>>
  /\ qsState = "running"
  /\ qsOff < Len(quotesReq)
  /\ qsOff' = qsOff + 1
  /\ LET msg == quotesReq[qsOff + 1]
     IN IF ClientRaises(msg) \/ ~ok
          THEN /\ qsState' = "dead"
               /\ quotesUpd' = quotesUpd
          ELSE /\ qsState' = "running"
               /\ quotesUpd' = Append(quotesUpd,
                      [user_id |-> msg.user_id, prices |-> prices, key |-> Key(msg.user_id)])
  /\ UNCHANGED quotesReq

NextQuotes ==
  \/ \E u \in Users, tok \in {"tok", None}, ok \in BOOLEAN : show_quotes(u, tok, ok)
  \/ \E prices \in {"prices", "empty"}, ok \in BOOLEAN : QsConsume(prices, ok)

\* The quotes workflow: show_quotes and the quotes_service worker.
SpecQuotes == InitStored /\ [][NextQuotes]_vars

\* ------------------------------------- bot_gateway: notifications_consumer

\* The NOTIFICATIONS_OUTBOUND envelopes the producers (summary_service,
\* storage_service) publish: a user id and a number of items; an envelope without
\* user id does not parse as NotificationOutbound.
Notifications ==
  { [user_id |-> u, key |-> Key(u), items |-> n] : u \in Users \cup {NoUser}, n \in 1..2 }

PublishNotification(env) ==
  /\ UNCHANGED <<hvars, pending, idsIssued, reqTopic, updTopic, psvars, gwvars, stvars>>
  /\ UNCHANGED <<qsvars, sumvars, scvars, yvars>>
  /\ Len(notifTopic) < MaxNotifications
  /\ notifTopic' = Append(notifTopic, env)
  /\ UNCHANGED <<ncOff, ncState, delivered, undelivered>>

\* One iteration of `async for msg in cons` of notifications_consumer on the envelope
\* at offset ncOff + 1: an envelope that does not parse is skipped; else
\* bot.send_message is awaited for each item in turn. failAt = 0: every send
\* succeeds; failAt = k: the send of item k raises, which nothing in the loop
\* catches: the loop ends (finally: cons.stop()).
NcConsume(failAt) ==
  /\ UNCHANGED <<hvars, pending, idsIssued, busvars, psvars, gwvars, stvars>>
  /\ UNCHANGED <<qsvars, sumvars, scvars, yvars>>
  /\ ncState = "running"
  /\ ncOff < Len(notifTopic)
  /\ ncOff' = ncOff + 1
  /\ LET i == ncOff + 1
         msg == notifTopic[i]
     IN IF msg.user_id = NoUser
          THEN /\ failAt = 0
               /\ UNCHANGED <<ncState, delivered, undelivered>>
          ELSE /\ failAt \in 0..msg.items
               /\ IF failAt = 0
                    THEN /\ delivered' = delivered \cup {<<i, k>> : k \in 1..msg.items}
                         /\ UNCHANGED <<ncState, undelivered>>
                    ELSE /\ delivered' = delivered \cup {<<i, k>> : k \in 1..(failAt - 1)}
                         /\ undelivered' = undelivered \cup {<<i, failAt>>}
                         /\ ncState' = "dead"

NextNotif ==
  \/ \E env \in Notifications : PublishNotification(env)
  \/ \E failAt \in 0..2 : NcConsume(failAt)

\* The delivery of notifications: the producers of the topic and the gateway's
\* notifications_consumer.
SpecNotif == Init /\ [][NextNotif]_vars

\* ---------------------------------------------------------- summary_service
\* worker() runs _handle_summary, _handle_news and _handle_daily as three tasks of
\* one event loop and waits for them in asyncio.gather. A task gives up the loop
\* only at an await: `async for msg in cons` and `await prod.send_and_wait`.

\* A request is published to the topic of task t (by the gateway or the scheduler).
SumRequest(t) ==
  /\ UNCHANGED <<corevars, yvars, qsvars, ncvars, scvars>>
  /\ sumPub[t] < MaxSummaryRequests
  /\ sumPub' = [sumPub EXCEPT ![t] = @ + 1]
  /\ UNCHANGED <<sumPc, sumOff, sumOut, sumLoop, sumWorker, sumShape>>

\* `async for msg in cons` of task t yields a message and the task runs on the
\* loop. kind = "skip": the message is dropped by a `continue` (it does not parse,
\* has no user id or no tickers). kind = "work": the task calls
\* call_perplexity_with_citations, a synchronous requests.post(..., timeout=20),
\* and stays on the loop until it returns.
SumReceive(t, kind) ==
  /\ UNCHANGED <<corevars, yvars, qsvars, ncvars, scvars>>
  /\ sumWorker = "gather"
  /\ sumLoop = NoTask
  /\ sumPc[t] = "receive"
  /\ sumOff[t] < sumPub[t]
  /\ sumOff' = [sumOff EXCEPT ![t] = @ + 1]
  /\ IF kind = "work"
       THEN /\ sumPc' = [sumPc EXCEPT ![t] = "llm"]
            /\ sumLoop' = t
       ELSE UNCHANGED <<sumPc, sumLoop>>
  /\ sumShape' = [sumShape EXCEPT ![t] = "valid"]
  /\ UNCHANGED <<sumPub, sumOut, sumWorker>>

\* The payloads without the shape {"user_id": int, "tickers": [str, ...]}: a field
\* is missing, user_id is a string that is no number, tickers is a number, or the
\* value is a non-empty JSON array instead of an object.
Malformed == {"no_user", "no_tickers", "user_mistyped", "tickers_mistyped", "not_object"}

\* What the handler of task t does with a malformed payload, before any LLM call.
\* _handle_summary: SummaryRequest.parse_obj raises inside try/except: `continue`.
\* _handle_news, _handle_daily: `data.get(...)` raises AttributeError on a value
\* that is no dict; `_filter_tickers(5)` raises TypeError; `if not user_id [or not
\* tickers]: continue` drops a payload without user id (news: or without tickers);
\* anything else is processed as it is.
OnPayload(t, shape) ==
  IF t = "summary" THEN "drop"
  ELSE IF shape \in {"not_object", "tickers_mistyped"} THEN "raise"
  ELSE IF shape = "no_user" THEN "drop"
  ELSE IF shape = "no_tickers" /\ t = "news" THEN "drop"
  ELSE "work"

\* `async for msg in cons` of task t yields a malformed payload.
SumReceiveMalformed(t, shape) ==
  /\ UNCHANGED <<corevars, yvars, qsvars, ncvars, scvars>>
  /\ sumWorker = "gather"
  /\ sumLoop = NoTask
  /\ sumPc[t] = "receive"
  /\ sumOff[t] < sumPub[t]
  /\ sumOff' = [sumOff EXCEPT ![t] = @ + 1]
  /\ sumShape' = [sumShape EXCEPT ![t] = shape]
  /\ sumPc' = [sumPc EXCEPT ![t] =
                 IF OnPayload(t, shape) = "work" THEN "llm"
                 ELSE IF OnPayload(t, shape) = "raise" THEN "failed"
                 ELSE "receive"]
  /\ sumLoop' = IF OnPayload(t, shape) = "work" THEN t ELSE NoTask
  /\ UNCHANGED <<sumPub, sumOut, sumWorker>>

\* Whether the handler publishes after the LLM calls: _handle_summary drops an answer
\* that is an LLM error (no items: `continue`); _handle_news and _handle_daily put a
\* replacement item and publish.
Publishes(t, res) == t # "summary" \/ res = "text"

\* The LLM calls of task t return (answer or error text); the task goes on to
\* `await prod.send_and_wait(...)`, or back to `async for`, and gives up the loop.
SumLLMReturn(t, res) ==
  /\ UNCHANGED <<corevars, yvars, qsvars, ncvars, scvars>>
  /\ sumPc[t] = "llm"
  /\ sumPc' = [sumPc EXCEPT ![t] = IF Publishes(t, res) THEN "publish" ELSE "receive"]
  /\ sumLoop' = NoTask
  /\ UNCHANGED <<sumPub, sumOff, sumOut, sumWorker, sumShape>>

\* send_and_wait of task t ends: the notification is published and the task is back
\* at `async for`, or the send raises, which no handler catches: the task ends with
\* the exception.
SumPublish(t, ok) ==
  /\ UNCHANGED <<corevars, yvars, qsvars, ncvars, scvars>>
  /\ sumWorker = "gather"
  /\ sumLoop = NoTask
  /\ sumPc[t] = "publish"
  /\ IF ok
       THEN /\ sumOut' = [sumOut EXCEPT ![t] = @ + 1]
            /\ sumPc' = [sumPc EXCEPT ![t] = "receive"]
       ELSE /\ sumOut' = sumOut
            /\ sumPc' = [sumPc EXCEPT ![t] = "failed"]
  /\ UNCHANGED <<sumPub, sumOff, sumLoop, sumWorker, sumShape>>

\* asyncio.gather(*tasks) (return_exceptions not set) raises the exception of the
\* task that ended; worker's finally cancels every task, awaits it and stops the
\* consumers and the producer; the exception is raised again and ends the process.
SumGatherRaises ==
  /\ UNCHANGED <<corevars, yvars, qsvars, ncvars, scvars>>
  /\ sumWorker = "gather"
  /\ sumLoop = NoTask
  /\ \E t \in Tasks : sumPc[t] = "failed"
  /\ sumWorker' = "crashed"
  /\ sumPc' = [t \in Tasks |-> IF sumPc[t] = "failed" THEN "failed" ELSE "cancelled"]
  /\ UNCHANGED <<sumPub, sumOff, sumOut, sumLoop, sumShape>>

NextSummary ==
  \/ \E t \in Tasks : SumRequest(t)
  \/ \E t \in Tasks, kind \in {"skip", "work"} : SumReceive(t, kind)
  \/ \E t \in Tasks, shape \in Malformed : SumReceiveMalformed(t, shape)
  \/ \E t \in Tasks, res \in {"text", "error"} : SumLLMReturn(t, res)
  \/ \E t \in Tasks, ok \in BOOLEAN : SumPublish(t, ok)
  \/ SumGatherRaises

\* summary_service: the three handler tasks of worker().
SpecSummary == Init /\ [][NextSummary]_vars

\* -------------------------------------------------------- scheduler_service

\* What GET /notify can return: the user ids whose daily summary is enabled for the
\* current minute, each once (user_id is the key of settings), in any order.
DueLists == { <<>>, <<1>>, <<2>>, <<1, 2>>, <<2, 1>> }

\* Mutant: run_forever without its try/except.
RunForeverPropagates == FALSE

\* `try: await tick_once() except Exception: pass`
RunForeverCatches == TRUE

\* An exception leaves tick_once (after `finally: await prod.stop()` if it was raised
\* in the loop over user_ids): run_forever drops it and goes on to its sleep.
TickRaises(at) ==
  /\ scFailAt' = at
  /\ scPc' = IF RunForeverCatches THEN "sleep" ELSE "dead"
  /\ UNCHANGED <<scDue, scIdx, scIssued>>

\* `while True:` - run_forever calls tick_once.
SchedTick ==
  /\ UNCHANGED <<corevars, yvars, qsvars, ncvars, sumvars>>
  /\ scPc = "start"
  /\ scPc' = "query"
  /\ scDue' = <<>> /\ scIdx' = 0 /\ scIssued' = <<>>
  /\ UNCHANGED scFailAt

\* GET /notify returns the due users (or raises); `if not user_ids: return`.
SchedNotify(due, ok) ==
  /\ UNCHANGED <<corevars, yvars, qsvars, ncvars, sumvars>>
  /\ scPc = "query"
  /\ IF ok
       THEN /\ scDue' = due
            /\ scPc' = IF due = <<>> THEN "sleep" ELSE "producer"
            /\ scFailAt' = NoFailure
            /\ UNCHANGED <<scIdx, scIssued>>
       ELSE TickRaises(OutsideLoop)

\* prod = await create_producer(), then the first iteration of `for uid in user_ids`.
SchedProducer(ok) ==
  /\ UNCHANGED <<corevars, yvars, qsvars, ncvars, sumvars>>
  /\ scPc = "producer"
  /\ IF ok
       THEN /\ scIdx' = 1
            /\ scPc' = "read"
            /\ UNCHANGED <<scDue, scIssued, scFailAt>>
       ELSE TickRaises(OutsideLoop)

\* The next iteration of `for uid in user_ids`, or the end of the loop
\* (finally: prod.stop(); tick_once returns).
SchedAdvance ==
  IF scIdx < Len(scDue)
    THEN scIdx' = scIdx + 1 /\ scPc' = "read"
    ELSE scIdx' = scIdx /\ scPc' = "sleep"

\* Mutant: a command is published for a user without tickers too.
NeverSkipped(tickers) == FALSE

\* `if not tickers: continue`
Skipped(tickers) == tickers = {}

\* GET /users/{uid}/portfolio of the current user; its tickers are collected.
SchedRead(ok) ==
  /\ UNCHANGED <<corevars, yvars, qsvars, ncvars, sumvars>>
  /\ scPc = "read"
  /\ IF ok
       THEN /\ IF Skipped(Securities(get_portfolio(scDue[scIdx])))
                 THEN SchedAdvance
                 ELSE scIdx' = scIdx /\ scPc' = "send"
            /\ UNCHANGED <<scDue, scIssued, scFailAt>>
       ELSE TickRaises(scIdx)

\* await prod.send_and_wait(SUMMARY_REQUEST, {"user_id": uid, "tickers": tickers[:20]})
SchedSend(ok) ==
  /\ UNCHANGED <<corevars, yvars, qsvars, ncvars, sumvars>>
  /\ scPc = "send"
  /\ IF ok
       THEN /\ scIssued' = Append(scIssued,
                   [user_id |-> scDue[scIdx],
                    tickers |-> Securities(get_portfolio(scDue[scIdx])),
                    key |-> None])
            /\ SchedAdvance
            /\ UNCHANGED <<scDue, scFailAt>>
       ELSE TickRaises(scIdx)

\* await asyncio.sleep(60) ends.
SchedSleep ==
  /\ UNCHANGED <<corevars, yvars, qsvars, ncvars, sumvars>>
  /\ scPc = "sleep"
  /\ scPc' = "start"
  /\ UNCHANGED <<scDue, scIdx, scIssued, scFailAt>>

NextSched ==
  \/ SchedTick
  \/ \E due \in DueLists, ok \in BOOLEAN : SchedNotify(due, ok)
  \/ \E ok \in BOOLEAN : SchedProducer(ok)
  \/ \E ok \in BOOLEAN : SchedRead(ok)
  \/ \E ok \in BOOLEAN : SchedSend(ok)
  \/ SchedSleep

\* scheduler_service: run_forever is the only task of its event loop; each of its
\* awaits (HTTP request, publish, sleep) returns or raises.
SpecSched == InitStored /\ [][NextSched]_vars /\ WF_vars(NextSched)

\* --------------------------- bot_gateway: the handlers that publish and do not wait

\* The commands summary_request, show_news and show_quotes have published.
GatewayCommands == Len(summaryReq) + Len(newsReq) + Len(quotesReq)

\* summary_request of user u: without tickers it answers and returns; else it
\* publishes SummaryRequest(user_id, tickers[:20]) with send_and_wait(SUMMARY_REQUEST,
\* req): no key is given. ok = FALSE: the store request, create_producer or the
\* send raised, nothing is published.
summary_request(u, ok) ==
  /\ UNCHANGED <<corevars, qsvars, ncvars, sumvars, scvars, cnvars, lcvars, clkvars, gtvars, wrvars>>
  /\ GatewayCommands < MaxCommands
  /\ summaryReq' =
       IF Securities(get_portfolio(u)) # {} /\ ok
         THEN Append(summaryReq, [user_id |-> u, tickers |-> Securities(get_portfolio(u)),
                                  key |-> None])
         ELSE summaryReq
  /\ UNCHANGED newsReq

\* Mutant: show_news registers a waiter for the correlation id it generates.
NewsWaiterRegistered(reg, c) == [reg EXCEPT ![c] = 1]

\* What show_news does to pending_portfolio_updates with its corr_id: nothing, the
\* id only travels in the payload.
NewsWaiter(reg, c) == reg

\* show_news of user u: without tickers it answers and returns; else it answers
\* with links, takes corr_id = str(uuid.uuid4()) and publishes the NEWS_REQUEST
\* keyed by the user id. ok = FALSE: the send raised.
show_news(u, c, ok) ==
  /\ UNCHANGED <<hvars, busvars, psvars, gwvars, stvars>>
  /\ UNCHANGED <<qsvars, ncvars, sumvars, scvars, cnvars, lcvars, clkvars, gtvars, wrvars>>
  /\ GatewayCommands < MaxCommands
  /\ IF Securities(get_portfolio(u)) = {}
       THEN UNCHANGED <<newsReq, idsIssued, pending>>
       ELSE /\ idsIssued' = idsIssued + 1
            /\ pending' = NewsWaiter(pending, c)
            /\ newsReq' =
                 IF ok
                   THEN Append(newsReq,
                          [user_id |-> u, tickers |-> Securities(get_portfolio(u)),
                           correlation_id |-> c, key |-> Key(u)])
                   ELSE newsReq
  /\ UNCHANGED summaryReq

NextCommands ==
  \/ \E u \in Users, ok \in BOOLEAN : summary_request(u, ok)
  \/ \E u \in Users, c \in uuid4, ok \in BOOLEAN : show_news(u, c, ok)
  \/ \E u \in Users, tok \in {"tok", None}, ok \in BOOLEAN :
        GatewayCommands < MaxCommands /\ show_quotes(u, tok, ok)
  \/ NextSched

\* The parties that publish commands without waiting for the completion: the
\* gateway's summary_request, show_news and show_quotes, and the scheduler.
SpecCommands == InitStored /\ [][NextCommands]_vars

\* ------------------------- shared/messaging/kafka.py: create_producer, create_consumer
\* The two functions have the same body; the handle is an AIOKafkaProducer or an
\* AIOKafkaConsumer.

\* create_producer(retries=r) or create_consumer(topic, group, retries=r) is called:
\* the handle is constructed, last_err = None.
ConnectCall(kind, r) ==
  /\ UNCHANGED <<corevars, qsvars, ncvars, sumvars, scvars, cmdvars, lcvars, clkvars, gtvars, wrvars>>
  /\ cnPc = "idle"
  /\ cnPc' = "loop"
  /\ cnKind' = kind /\ cnRetries' = r
  /\ cnAttempt' = 0 /\ cnLastErr' = 0 /\ cnStarted' = FALSE

\* `for attempt in range(retries): try: await handle.start(); return handle
\* except Exception as e: last_err = e; ... await asyncio.sleep(...)`
ConnectStart(ok) ==
  /\ UNCHANGED <<corevars, qsvars, ncvars, sumvars, scvars, cmdvars, lcvars, clkvars, gtvars, wrvars>>
  /\ cnPc = "loop"
  /\ cnAttempt < cnRetries
  /\ cnAttempt' = cnAttempt + 1
  /\ IF ok
       THEN cnStarted' = TRUE /\ cnPc' = "returned" /\ cnLastErr' = cnLastErr
       ELSE cnStarted' = FALSE /\ cnPc' = "sleep" /\ cnLastErr' = cnAttempt + 1
  /\ UNCHANGED <<cnKind, cnRetries>>

\* await asyncio.sleep(backoff_sec * (attempt + 1)) ends.
ConnectSleep ==
  /\ UNCHANGED <<corevars, qsvars, ncvars, sumvars, scvars, cmdvars, lcvars, clkvars, gtvars, wrvars>>
  /\ cnPc = "sleep"
  /\ cnPc' = "loop"
  /\ UNCHANGED <<cnKind, cnRetries, cnAttempt, cnLastErr, cnStarted>>

\* The loop is over: `if last_err: raise last_err`, else `return handle`.
ConnectExhausted ==
  /\ UNCHANGED <<corevars, qsvars, ncvars, sumvars, scvars, cmdvars, lcvars, clkvars, gtvars, wrvars>>
  /\ cnPc = "loop"
  /\ cnAttempt >= cnRetries
  /\ cnPc' = IF cnLastErr # 0 THEN "raised" ELSE "returned"
  /\ UNCHANGED <<cnKind, cnRetries, cnAttempt, cnLastErr, cnStarted>>

NextConnect ==
  \/ \E kind \in {"producer", "consumer"}, r \in 0..MaxRetries : ConnectCall(kind, r)
  \/ \E ok \in BOOLEAN : ConnectStart(ok)
  \/ ConnectSleep
  \/ ConnectExhausted

\* One call of create_producer or create_consumer, for every kind and retries.
SpecConnect == Init /\ [][NextConnect]_vars

\* ------------------------------------------------- the two worker loops
NextWorkers ==
  \/ \E req \in ForeignRequests : ForeignRequest(req)
  \/ \E p \in Snapshots \cup {<<>>}, ok \in BOOLEAN : PsConsume(p, ok)
  \/ \E u \in Users, tok \in {"tok", None}, ok \in BOOLEAN : show_quotes(u, tok, ok)
  \/ \E prices \in {"prices", "empty"}, ok \in BOOLEAN : QsConsume(prices, ok)

\* The workers of portfolio_service and quotes_service with commands on their
\* topics and a producer whose send_and_wait can raise.
SpecWorkers == InitStored /\ [][NextWorkers]_vars

\* ------------------------------------------------- the storage workflow
NextStorage ==
  \/ \E u \in Users \cup {NoUser}, tok \in {"tok", None} :
       ForeignRequest(Request(u, "x1", tok))
  \/ \E p \in Snapshots \cup {<<>>} : PsConsume(p, TRUE)
  \/ \E dbOk \in BOOLEAN, notifOk \in BOOLEAN : StConsume(dbOk, notifOk)

\* Completions of any user, equal ones among them, applied by storage_service to any
\* persisted portfolios.
SpecStorage == InitStored /\ [][NextStorage]_vars

\* ------------------------------------- scheduler_service on the wall clock
\* `await asyncio.sleep(60)`, in units of ten seconds.
SleepUnits == 6

\* datetime.now().strftime("%H:%M"): the minute the time lies in.
Minute(t) == t \div SleepUnits

\* The time at which `await asyncio.sleep(60)` started at time t returns.
AfterSleep(t) == t + SleepUnits

\* asyncio.run(run_forever()) at some second of minute 0.
ClockStart(at) ==
  /\ UNCHANGED <<corevars, qsvars, ncvars, sumvars, scvars, cmdvars, cnvars, lcvars, gtvars, wrvars>>
  /\ clkPc = "boot"
  /\ clkNow' = at
  /\ clkPc' = "tick"
  /\ UNCHANGED clkQueried

\* tick_once: now_str is taken first and /notify is queried with it; the requests
\* and publishes of the tick take d units (an exception is dropped by run_forever).
ClockTick(d) ==
  /\ UNCHANGED <<corevars, qsvars, ncvars, sumvars, scvars, cmdvars, cnvars, lcvars, gtvars, wrvars>>
  /\ clkPc = "tick"
  /\ Minute(clkNow) <= MaxMinutes
  /\ clkQueried' = [clkQueried EXCEPT ![Minute(clkNow)] = @ + 1]
  /\ clkNow' = clkNow + d
  /\ clkPc' = "sleep"

\* await asyncio.sleep(60) returns.
ClockSleep ==
  /\ UNCHANGED <<corevars, qsvars, ncvars, sumvars, scvars, cmdvars, cnvars, lcvars, gtvars, wrvars>>
  /\ clkPc = "sleep"
  /\ clkNow' = AfterSleep(clkNow)
  /\ clkPc' = "tick"
  /\ UNCHANGED clkQueried

NextClock ==
  \/ \E at \in 0..(SleepUnits - 1) : ClockStart(at)
  \/ \E d \in 0..MaxTickUnits : ClockTick(d)
  \/ ClockSleep

\* run_forever against the wall clock.
SpecClock == Init /\ [][NextClock]_vars

\* ------------------------------------------------- write_rows on its own
\* The positions an event can carry: with or without ticker, tickers repeating.
PositionLists ==
  UNION { [1..n -> {Pos(t, q) : t \in {"", "A", "B"}, q \in {1, 2}}] : n \in 0..MaxPositions }

\* An event with these positions arrives for the user.
WriteRowsCall(positions) ==
  /\ UNCHANGED <<corevars, qsvars, ncvars, sumvars, scvars, cmdvars, cnvars, lcvars, clkvars, gtvars>>
  /\ wrPc = "idle"
  /\ wrIn' = positions
  /\ wrPc' = "called"
  /\ UNCHANGED wrOut

\* `inserted = write_rows()`: the transaction commits.
WriteRowsReturn ==
  /\ UNCHANGED <<corevars, qsvars, ncvars, sumvars, scvars, cmdvars, cnvars, lcvars, clkvars, gtvars>>
  /\ wrPc = "called"
  /\ wrOut' = ReplaceRows(wrOut, write_rows(wrIn))
  /\ wrPc' = "idle"
  /\ UNCHANGED wrIn

NextWriteRows ==
  \/ \E positions \in PositionLists : WriteRowsCall(positions)
  \/ WriteRowsReturn

\* write_rows applied to one event after another.
SpecWriteRows == Init /\ [][NextWriteRows]_vars

\* ------------------------------------------- the life of a consumer loop
\* Every consumer loop has the same frame: the coroutine creates its handles, then
\* `try: async for msg in cons: <callback> finally: await <handle>.stop() ...`.

\* The coroutines that host consumer loops: three tasks of bot_gateway, the task of
\* storage_service, and worker() of portfolio_service, quotes_service and
\* summary_service.
Units ==
  {"notifications_consumer", "quotes_consumer", "portfolio_updated_consumer",
   "consume_portfolio_updates", "portfolio_worker", "quotes_worker", "summary_worker"}

\* The coroutines started with create_task from a startup hook (gateway on_startup,
\* storage on_startup); the others are the argument of asyncio.run.
BackgroundTasks ==
  {"notifications_consumer", "quotes_consumer", "portfolio_updated_consumer",
   "consume_portfolio_updates"}

\* The handles the coroutine creates, in order, all of them before its `try`.
Handles(unit) ==
  IF unit \in {"notifications_consumer", "quotes_consumer", "portfolio_updated_consumer"}
    THEN <<"cons">>
  ELSE IF unit = "summary_worker"
    THEN <<"cons", "news_cons", "daily_cons", "prod">>
    ELSE <<"cons", "prod">>

\* Whether the callback of the loop has an await (a request, a send): the body of
\* portfolio_updated_consumer has none.
CallbackAwaits(unit) == unit # "portfolio_updated_consumer"

\* What an exception that leaves the coroutine does to the process: a background
\* task keeps it (nobody awaits the task), asyncio.run raises it and the process ends.
AfterExit(unit) == IF unit \in BackgroundTasks THEN "up" ELSE "exited"

\* The service starts and the coroutine begins.
LcLaunch(unit) ==
  /\ UNCHANGED <<corevars, qsvars, ncvars, sumvars, scvars, cmdvars, cnvars, clkvars, gtvars, wrvars>>
  /\ lcPc = "idle"
  /\ lcUnit' = unit
  /\ lcPc' = "connect" /\ lcIdx' = 1
  /\ UNCHANGED <<lcCreated, lcStops, lcProc, lcWhy, lcAbandoned>>

\* `x = await create_consumer(...)` / `prod = await create_producer()`: the handle is
\* returned, or the retries are exhausted and the last error is raised, which
\* leaves the coroutine, no `try` being entered yet.
LcConnect(ok) ==
  /\ UNCHANGED <<corevars, qsvars, ncvars, sumvars, scvars, cmdvars, cnvars, clkvars, gtvars, wrvars>>
  /\ lcPc = "connect"
  /\ IF ok
       THEN /\ lcCreated' = lcCreated \cup {Handles(lcUnit)[lcIdx]}
            /\ IF lcIdx < Len(Handles(lcUnit))
                 THEN lcIdx' = lcIdx + 1 /\ lcPc' = "connect"
                 ELSE lcIdx' = 0 /\ lcPc' = "loop"
            /\ UNCHANGED <<lcProc, lcWhy>>
       ELSE /\ lcPc' = "ended" /\ lcWhy' = "connect_failed"
            /\ lcProc' = AfterExit(lcUnit)
            /\ UNCHANGED <<lcCreated, lcIdx>>
  /\ UNCHANGED <<lcUnit, lcStops, lcAbandoned>>

\* `async for msg in cons` yields a message and the callback runs to its first await.
LcReceive ==
  /\ UNCHANGED <<corevars, qsvars, ncvars, sumvars, scvars, cmdvars, cnvars, clkvars, gtvars, wrvars>>
  /\ lcPc = "loop"
  /\ lcPc' = IF CallbackAwaits(lcUnit) THEN "work" ELSE "loop"
  /\ UNCHANGED <<lcUnit, lcIdx, lcCreated, lcStops, lcProc, lcWhy, lcAbandoned>>

\* An await of the callback returns: the callback goes on to its last await (the
\* publish of the completion, the send to the chat), or has finished the message.
LcStep ==
  /\ UNCHANGED <<corevars, qsvars, ncvars, sumvars, scvars, cmdvars, cnvars, clkvars, gtvars, wrvars>>
  /\ lcPc \in {"work", "publish"}
  /\ lcPc' = IF lcPc = "work" THEN "publish" ELSE "loop"
  /\ UNCHANGED <<lcUnit, lcIdx, lcCreated, lcStops, lcProc, lcWhy, lcAbandoned>>

\* The loop is left at an await: by an exception the callback does not catch
\* (why = "exception") or by the cancellation of the coroutine at shutdown
\* (why = "cancelled": CancelledError is raised at the await the coroutine is
\* suspended in). The `finally` begins.
LcLeave(why) ==
  /\ UNCHANGED <<corevars, qsvars, ncvars, sumvars, scvars, cmdvars, cnvars, clkvars, gtvars, wrvars>>
  /\ \/ why = "cancelled" /\ lcPc \in {"loop", "work", "publish"}
     \/ why = "exception" /\ lcPc \in {"work", "publish"}
  /\ lcWhy' = why
  /\ lcAbandoned' = (lcPc \in {"work", "publish"})
  /\ lcPc' = "finally" /\ lcIdx' = 1
  /\ UNCHANGED <<lcUnit, lcCreated, lcStops, lcProc>>

\* The next `await <handle>.stop()` of the finally; after the last one the
\* coroutine ends with the exception that made it leave the loop. A stop() that
\* raises ends the finally at once.
LcStop(ok) ==
  /\ UNCHANGED <<corevars, qsvars, ncvars, sumvars, scvars, cmdvars, cnvars, clkvars, gtvars, wrvars>>
  /\ lcPc = "finally"
  /\ lcStops' = [lcStops EXCEPT ![Handles(lcUnit)[lcIdx]] = @ + 1]
  /\ IF ok /\ lcIdx < Len(Handles(lcUnit))
       THEN lcIdx' = lcIdx + 1 /\ UNCHANGED <<lcPc, lcProc>>
       ELSE lcIdx' = 0 /\ lcPc' = "ended" /\ lcProc' = AfterExit(lcUnit)
  /\ UNCHANGED <<lcUnit, lcCreated, lcWhy, lcAbandoned>>

NextLifecycle ==
  \/ \E unit \in Units : LcLaunch(unit)
  \/ \E ok \in BOOLEAN : LcConnect(ok)
  \/ LcReceive
  \/ LcStep
  \/ \E why \in {"exception", "cancelled"} : LcLeave(why)
  \/ \E ok \in BOOLEAN : LcStop(ok)

\* The life of each consumer loop from the start of its service to its end.
SpecLifecycle == Init /\ [][NextLifecycle]_vars

\* ------------------------------------------------------------- specification

Common ==
  \/ \E h \in Handlers, ok \in BOOLEAN : Send(h, ok)
  \/ \E h \in Handlers, ok \in BOOLEAN : Answer(h, ok)
  \/ \E h \in Handlers : WaitResolved(h)
  \/ \E h \in Handlers : WaitTimeout(h)
  \/ \E h \in Handlers, ok \in BOOLEAN : Render(h, ok)
  \/ GwConsume
  \/ \E p \in Snapshots \cup {<<>>} : PsConsume(p, TRUE)
  \/ StConsume(TRUE, TRUE)
  \/ \E req \in ForeignRequests : ForeignRequest(req)

Inputs == {"show", "done"} \X GatewayUsers \X [accounts : BOOLEAN, token : BOOLEAN] \X BOOLEAN

Next ==
  \/ Common
  \/ \E h \in Handlers, in \in Inputs, c \in uuid4 : Invoke(h, in[1], in[2], in[3], in[4], c)

Spec == Init /\ [][Next]_vars

\* The event loop runs a task whose awaited future is done: a wait_for whose future
\* has a result returns.
SpecLive == Init /\ [][Next]_vars /\ \A h \in Handlers : WF_vars(WaitResolved(h))

\* The same program with uuid4() allowed to return a value it returned before.
NextDup ==
  \/ Common
  \/ \E h \in Handlers, in \in Inputs, c \in uuid4 \cup IssuedIds :
       Invoke(h, in[1], in[2], in[3], in[4], c)
  \/ \E h \in Handlers : WaitCancelled(h)

SpecDup == Init /\ [][NextDup]_vars

\* ------------------------------------ bot_gateway: the tasks of its event loop
\* Mutant: the consumer does its requests with a synchronous call, which keeps the
\* event loop until the message is done.
HoldsLoopWhileBusy(c) == TRUE

\* Whether consumer c keeps the event loop while a message of it is in processing:
\* every request and send in quotes_consumer and notifications_consumer is awaited
\* (aiohttp, aiogram), so the loop is given up at each of them.
HoldsLoop(c) == FALSE

\* The event loop of the gateway can run another task.
LoopFree == \A c \in OtherConsumers : ~(gtPc[c] = "busy" /\ HoldsLoop(c))

\* `async for msg in cons` of consumer c yields a message; the callback runs to its
\* first await.
GtReceive(c) ==
  /\ UNCHANGED <<corevars, qsvars, ncvars, sumvars, scvars, cmdvars, cnvars, lcvars, clkvars, wrvars>>
  /\ LoopFree
  /\ gtPc[c] = "receive"
  /\ gtPc' = [gtPc EXCEPT ![c] = "busy"]

\* The callback of consumer c is done with the message, or an exception leaves it
\* (quotes_consumer: a store request or a send outside its inner try;
\* notifications_consumer: bot.send_message): finally cons.stop(), the task ends.
GtResume(c, ok) ==
  /\ UNCHANGED <<corevars, qsvars, ncvars, sumvars, scvars, cmdvars, cnvars, lcvars, clkvars, wrvars>>
  /\ gtPc[c] = "busy"
  /\ gtPc' = [gtPc EXCEPT ![c] = IF ok THEN "receive" ELSE "ended"]

\* The steps of the handlers and of portfolio_updated_consumer, which need the
\* gateway's event loop.
GatewayStep ==
  \/ \E h \in Handlers, in \in Inputs, c \in uuid4 : Invoke(h, in[1], in[2], in[3], in[4], c)
  \/ \E h \in Handlers, ok \in BOOLEAN : Send(h, ok)
  \/ \E h \in Handlers, ok \in BOOLEAN : Answer(h, ok)
  \/ \E h \in Handlers : WaitResolved(h)
  \/ \E h \in Handlers : WaitTimeout(h)
  \/ \E h \in Handlers, ok \in BOOLEAN : Render(h, ok)
  \/ GwConsume

NextGateway ==
  \/ LoopFree /\ GatewayStep
  \/ \E c \in OtherConsumers : GtReceive(c)
  \/ \E c \in OtherConsumers, ok \in BOOLEAN : GtResume(c, ok)
  \/ \E p \in Snapshots \cup {<<>>} : PsConsume(p, TRUE)
  \/ StConsume(TRUE, TRUE)

\* The event loop runs every task that is ready: a wait_for whose future is done or
\* whose timeout elapsed returns, and a handler that is not suspended goes on.
GatewayFairness ==
  \A h \in Handlers :
    /\ WF_vars(LoopFree /\ WaitResolved(h))
    /\ WF_vars(LoopFree /\ WaitTimeout(h))
    /\ WF_vars(LoopFree /\ \E ok \in BOOLEAN : Render(h, ok))

\* The portfolio workflow with the other two consumer tasks of the gateway.
SpecGateway == Init /\ [][NextGateway]_vars /\ GatewayFairness

\* ------------------------------------------------------------------ claims

\* The indices of the completions for correlation id c the gateway has consumed.
ConsumedFor(c) == {i \in 1..gwOff : updTopic[i].correlation_id = c}
\* The indices of the completions for c the storage service has applied.
AppliedFor(c) == {i \in 1..stOff : updTopic[i].correlation_id = c}
\* The step is a render of handler h that read the store.
RenderStep(h) == renders'[h] = renders[h] + 1 /\ shown'[h].read
\* The step is portfolio_updated_consumer taking its next event, or ending.
GwStep == gwOff' # gwOff \/ gwState' # gwState

\* C1: a waiter ends in at most one outcome: a waiter that timed out never has a
\* result, and a waiter that was resolved is never cancelled.
C1_AtMostOneOutcome ==
  \A h \in Handlers :
    /\ ~(outcome[h] = "timeout" /\ fut[h] = "finished")
    /\ ~(outcome[h] = "resolved" /\ fut[h] = "cancelled")

\* C1 witness: one wait timed out and its completion was consumed afterwards, while
\* another wait was resolved.
C1_Witness ==
  \E h, g \in Handlers :
    /\ outcome[h] = "timeout" /\ ConsumedFor(hcorr[h]) # {}
    /\ outcome[g] = "resolved"

\* C2 (as claimed): after a wait ended by timeout its correlation id is no longer a
\* key of pending_portfolio_updates.
C2_TimeoutDeregisters ==
  \A h \in Handlers : outcome[h] = "timeout" => pending[hcorr[h]] = NoFut

\* C3: a command on the bus carries a correlation id whose waiter was created and
\* registered before: the waiter is in the registry until the gateway consumes the
\* completion, and no completion is consumed for an id without a future.
C3_WaiterBeforeCommand ==
  \A h \in Handlers :
    (hcorr[h] # None /\ \E i \in 1..Len(reqTopic) : reqTopic[i].correlation_id = hcorr[h])
      => /\ fut[h] # "none"
         /\ pending[hcorr[h]] = h \/ ConsumedFor(hcorr[h]) # {}

\* C3 witness: the completion of a handler's command was consumed and resolved its waiter.
C3_Witness ==
  \E h \in Handlers : ConsumedFor(hcorr[h]) # {} /\ fut[h] = "finished"

\* C4 (as claimed): a render that follows the resolution of the wait by event E reads
\* the store after the storage service applied E.
C4_StoreReflectsEvent ==
  [][\A h \in Handlers :
       (RenderStep(h) /\ outcome[h] = "resolved") => AppliedFor(hcorr[h]) # {}]_vars

\* C5: consuming a PORTFOLIO_UPDATED event whose correlation id is absent or is no key
\* of the registry changes neither the registry nor any future, and the consumer
\* goes on.
C5_UnknownDropped ==
  [][(/\ GwStep
      /\ gwOff < Len(updTopic)
      /\ LET c == updTopic[gwOff + 1].correlation_id
         IN IF c = None THEN TRUE ELSE pending[c] = NoFut)
     => (pending' = pending /\ fut' = fut /\ gwOff' = gwOff + 1 /\ gwState' = "running")]_vars

\* C5 witness: an event with a foreign correlation id was consumed while a waiter is
\* registered and pending.
C5_Witness ==
  /\ gwOff >= 1
  /\ updTopic[gwOff].correlation_id \in ForeignIds
  /\ gwState = "running"
  /\ \E h \in Handlers : fut[h] = "pending" /\ pending[hcorr[h]] = h

\* C6: consuming the completion for a wait that already timed out sets no result,
\* starts no render, raises nothing: the consumer stays in its loop.
C6_LateCompletionDropped ==
  [][\A h \in Handlers :
       (/\ outcome[h] = "timeout"
        /\ GwStep
        /\ gwOff < Len(updTopic)
        /\ updTopic[gwOff + 1].correlation_id = hcorr[h])
       => (/\ fut'[h] = "cancelled"
           /\ renders' = renders /\ hpc' = hpc /\ shown' = shown
           /\ gwOff' = gwOff + 1 /\ gwState' = "running")]_vars

\* C6 witness: the completion of a timed-out wait was consumed and the consumer runs.
C6_Witness ==
  \E h \in Handlers :
    /\ outcome[h] = "timeout" /\ fut[h] = "cancelled"
    /\ ConsumedFor(hcorr[h]) # {} /\ gwState = "running"

\* C7 (as claimed): a registration never replaces the waiter an id already has.
C7_NoSilentOverwrite ==
  [][\A c \in AllIds :
       pending[c] # NoFut => pending'[c] \in {pending[c], NoFut}]_vars

\* C8: the i-th PORTFOLIO_UPDATED event is the completion of the i-th request the
\* worker consumed: same user id, same correlation id (none if the request had
\* none), and the user id as message key.
C8_CompletionEchoesRequest ==
  /\ Len(updTopic) <= psOff
  /\ \A i \in 1..Len(updTopic) :
       /\ updTopic[i].user_id = reqTopic[i].user_id
       /\ updTopic[i].correlation_id = reqTopic[i].correlation_id
       /\ updTopic[i].user_id # NoUser => updTopic[i].key = ToString(updTopic[i].user_id)

\* C8 witness: a completion with a handler's correlation id and one without any.
C8_Witness ==
  \E i, j \in 1..Len(updTopic) :
    /\ updTopic[i].correlation_id \in OwnIds /\ updTopic[i].user_id \in Users
    /\ updTopic[j].correlation_id = None

\* C9: once the wait ended, by resolution or by timeout, the handler renders exactly
\* once and ends, and the render shows the rows the store holds at that time.
C9_RenderOnceFromStore ==
  [][\A h \in Handlers :
       /\ outcome'[h] \in {"resolved", "timeout"}
            => /\ hpc'[h] \in {"render", "done"}
               /\ renders'[h] = (IF hpc'[h] = "done" THEN 1 ELSE 0)
       /\ (RenderStep(h) /\ outcome[h] \in {"resolved", "timeout"})
            => shown'[h].rows = store[huser[h]]]_vars

\* C9 witness: a handler rendered after its wait was resolved, and what it showed
\* differs from the positions of the resolving event.
C9_Witness ==
  \E h \in Handlers :
    /\ hpc[h] = "done" /\ outcome[h] = "resolved" /\ shown[h].read
    /\ \E i \in ConsumedFor(hcorr[h]) : shown[h].rows # write_rows(updTopic[i].positions)

\* C10 (as claimed): a handler that issues no command because token or accounts are
\* missing renders, without a waiter.
C10_MissingPreconditionsRender ==
  \A h \in Handlers :
    (hpc[h] = "done" /\ outcome[h] \in {"fallback", "empty_accounts", "no_token"})
      => renders[h] = 1 /\ fut[h] = "none"

\* C10 (amended): show_portfolio without token or accounts goes straight to one
\* render, accounts_done ends after its hint without rendering; neither creates a
\* waiter nor waits.
C10_FallbackOnlyInShowPortfolio ==
  \A h \in Handlers :
    /\ outcome[h] = "fallback"
         => /\ hkind[h] = "show" /\ hpc[h] \in {"render", "done"}
            /\ renders[h] = (IF hpc[h] = "done" THEN 1 ELSE 0)
    /\ outcome[h] \in {"empty_accounts", "no_token"}
         => hkind[h] = "done" /\ hpc[h] = "done" /\ renders[h] = 0
    /\ outcome[h] \in {"fallback", "empty_accounts", "no_token"}
         => fut[h] = "none" /\ hcorr[h] = None /\ awaited[h] = NoFut

\* C10 witness: a show_portfolio that rendered as fallback and an accounts_done that
\* ended without a command.
C10_Witness ==
  \E h, g \in Handlers :
    /\ outcome[h] = "fallback" /\ hpc[h] = "done" /\ renders[h] = 1
    /\ outcome[g] \in {"empty_accounts", "no_token"}

\* C11 (as claimed): every invocation of render_and_send_portfolio sends a message to
\* the chat, whatever the store holds and whether or not the store can be reached.
C11_RenderAlwaysSends ==
  \A h \in Handlers : renders[h] >= 1 => shown[h].sent

\* C12: when the completion with a handler's correlation id is consumed while the
\* handler waits on it, the wait ends with the result and the handler goes on to
\* render; it does not stay in the wait until the timeout.
C12_ResolvedWaitEnds ==
  \A h \in Handlers :
    (hpc[h] = "wait" /\ awaited[h] = h /\ ConsumedFor(hcorr[h]) # {})
      ~> (hpc[h] \in {"render", "done"} /\ outcome[h] = "resolved")

\* C12 witness: a handler is in its wait, and the completion with its correlation id
\* has been consumed and has given its future the result.
C12_Witness ==
  \E h \in Handlers :
    /\ hpc[h] = "wait" /\ awaited[h] = h
    /\ ConsumedFor(hcorr[h]) # {} /\ fut[h] = "finished"

\* C13: a PORTFOLIO_REQUEST whose work fails (no token: TinkoffClient raises) is
\* answered with a completion without positions and leaves the worker in its loop,
\* so that the request after it is consumed and answered too.
C13_WorkFailureContained ==
  \A i \in 1..psOff :
    reqTopic[i].token = None
      => /\ psState = "running"
         /\ Len(updTopic) = psOff
         /\ updTopic[i].positions = <<>>
         /\ updTopic[i].correlation_id = reqTopic[i].correlation_id

\* C13 witness: the first request had no token, and the request after it was
\* consumed and answered with positions.
C13_Witness ==
  /\ psOff = 2 /\ Len(updTopic) = 2
  /\ reqTopic[1].token = None
  /\ reqTopic[2].token # None /\ updTopic[2].positions # <<>>

\* C14 (as claimed): a QUOTES_REQUEST without token, once taken by the worker, leaves
\* the worker in its loop.
C14_QuotesFailureContained ==
  \A i \in 1..qsOff : quotesReq[i].token = None => qsState = "running"

\* C15 (as claimed): a bot.send_message that raised for one notification item leaves
\* notifications_consumer in its loop.
C15_DeliveryFailureContained ==
  undelivered # {} => ncState = "running"

\* C16 (as claimed): when one of the three loops of summary_service ended with an
\* unhandled exception, the other two are not stopped.
C16_LoopsIsolated ==
  \A a \in Tasks :
    sumPc[a] = "failed" => \A b \in Tasks \ {a} : sumPc[b] # "cancelled"

\* C17 (as claimed): while one handler waits for the LLM answer, another handler
\* whose topic holds an unconsumed message can take it.
C17_OthersProgressDuringLLM ==
  \A a, b \in Tasks :
    (a # b /\ sumPc[a] = "llm" /\ sumPc[b] = "receive" /\ sumOff[b] < sumPub[b])
      => ENABLED (\E kind \in {"skip", "work"} : SumReceive(b, kind))

\* The due users of the current tick that have a ticker to summarise, in order.
DueWithTickers == SelectSeq(scDue, LAMBDA u : Securities(store[u]) # {})
\* The users of the commands published in the current tick, in order.
IssuedUsers == [k \in 1..Len(scIssued) |-> scIssued[k].user_id]

\* C18 (as claimed): when a tick raised at due user ui, the command of every other
\* due user with tickers, before and after ui, was published in that tick.
C18_FailureAtOneUserContained ==
  (scPc = "sleep" /\ scFailAt \in 1..Len(scDue))
    => \A j \in 1..Len(scDue) :
         (j # scFailAt /\ Securities(store[scDue[j]]) # {})
           => \E k \in 1..Len(scIssued) : scIssued[k].user_id = scDue[j]

\* C19: no exception of tick_once ends run_forever: the scheduler is never dead, and
\* again and again a tick is started.
C19_TicksForever ==
  [](scPc # "dead") /\ []<>(scPc = "query")

\* C19 witness: a tick raised in the loop over the due users, run_forever slept, and
\* the next tick has been started.
C19_Witness ==
  scPc = "query" /\ scFailAt \in {1, 2}

\* C20 (as claimed): a tick in which nothing failed published exactly one command
\* for each due user, and none for another user.
C20_OneCommandPerDueUser ==
  (scPc = "sleep" /\ scFailAt = NoFailure) => IssuedUsers = scDue

\* C20 (amended): a tick in which nothing failed published exactly one command for
\* each due user whose stored portfolio has a ticker other than cash, with these
\* tickers, and none for a due user without such a ticker or for another user.
C20_OneCommandPerDueUserWithTickers ==
  (scPc = "sleep" /\ scFailAt = NoFailure)
    => /\ IssuedUsers = DueWithTickers
       /\ \A k \in 1..Len(scIssued) :
            scIssued[k].tickers = Securities(store[scIssued[k].user_id])

\* C20 witness: a tick without failure with two due users, of which one has tickers
\* and got its command and the other has none.
C20_Witness ==
  /\ scPc = "sleep" /\ scFailAt = NoFailure
  /\ Len(scDue) = 2 /\ Len(scIssued) = 1
  /\ scIssued[1].user_id = scDue[2]

\* The step publishes a command of a party that does not wait.
UnawaitedPublish ==
  \/ Len(summaryReq') > Len(summaryReq)
  \/ Len(newsReq') > Len(newsReq)
  \/ Len(quotesReq') > Len(quotesReq)
  \/ Len(scIssued') > Len(scIssued)

\* C21: a step in which summary_request, show_news, show_quotes or the scheduler
\* publishes a command leaves pending_portfolio_updates as it was.
C21_NoWaiterForUnawaited ==
  [][UnawaitedPublish => pending' = pending]_vars

\* C21 witness: each of the four parties has published a command, and the registry
\* has no entry.
C21_Witness ==
  /\ Len(summaryReq) = 1 /\ Len(newsReq) = 1 /\ Len(quotesReq) = 1
  /\ Len(scIssued) >= 1
  /\ \A c \in AllIds : pending[c] = NoFut

\* The command envelope carries its user id as message key.
KeyedByUser(env) == env.key = ToString(env.user_id)

\* C22 (as claimed): every command published by the gateway and by the scheduler has
\* the user id as its key.
C22_CommandsKeyedByUser ==
  /\ \A i \in 1..Len(reqTopic) :
       reqTopic[i].correlation_id \in OwnIds => KeyedByUser(reqTopic[i])
  /\ \A i \in 1..Len(quotesReq) : KeyedByUser(quotesReq[i])
  /\ \A i \in 1..Len(newsReq) : KeyedByUser(newsReq[i])
  /\ \A i \in 1..Len(summaryReq) : KeyedByUser(summaryReq[i])
  /\ \A i \in 1..Len(scIssued) : KeyedByUser(scIssued[i])

\* The PORTFOLIO_UPDATED events of user u the storage service has applied.
AppliedOf(u) == {i \in 1..stOff : updTopic[i].user_id = u}
\* The last of a non-empty set of offsets.
Last(S) == CHOOSE i \in S : \A j \in S : j <= i

\* C23: the completions are published in the order of the requests, the storage
\* service applies them in that order, and a user's stored portfolio is the one of
\* the last completion applied for the user: of two requests of one user, the
\* second one's.
C23_InOrderLastWins ==
  /\ stOff <= Len(updTopic) /\ Len(updTopic) <= psOff /\ psOff <= Len(reqTopic)
  /\ \A i \in 1..Len(updTopic) : updTopic[i].user_id = reqTopic[i].user_id
  /\ \A u \in Users :
       AppliedOf(u) # {} => store[u] = write_rows(updTopic[Last(AppliedOf(u))].positions)

\* C23 witness: two requests of user 1 were processed and their completions applied;
\* the completions differ and the store holds the second one's positions.
C23_Witness ==
  /\ stOff = 2
  /\ reqTopic[1].user_id = 1 /\ reqTopic[2].user_id = 1
  /\ write_rows(updTopic[1].positions) # write_rows(updTopic[2].positions)
  /\ store[1] = write_rows(updTopic[2].positions)

\* C24 (as claimed): a call returns only a handle on which start() succeeded, raises
\* only the error of its last attempt, and never attempts more than `retries` times.
C24_ConnectContract ==
  /\ cnAttempt <= cnRetries
  /\ cnPc = "returned" => cnStarted
  /\ cnPc = "raised" => (~cnStarted /\ cnLastErr = cnAttempt)

\* C25 (as claimed): when connecting a consumer or producer at startup failed for
\* good, the process of the service has ended.
C25_StartupFailureFatal ==
  (lcPc = "ended" /\ lcWhy = "connect_failed") => lcProc = "exited"

\* C27 (as claimed): when the coroutine of a loop has ended, stop() was called exactly
\* once on every consumer it created.
C27_ReleasedExactlyOnce ==
  lcPc = "ended" =>
    \A x \in lcCreated \ {"prod"} : lcStops[x] = 1

\* C28 (as claimed): a loop that was left by a shutdown had no message in processing.
C28_ShutdownDrains ==
  (lcPc \in {"finally", "ended"} /\ lcWhy = "cancelled") => ~lcAbandoned

\* The worker took a command and its completion was not published, the client
\* having been constructed: send_and_wait raised.
PsPublishFailed == psOff' = psOff + 1 /\ updTopic' = updTopic
QsPublishFailed ==
  /\ qsOff' = qsOff + 1 /\ quotesUpd' = quotesUpd
  /\ ~ClientRaises(quotesReq[qsOff + 1])

\* C26 (as claimed): a worker whose publish of a completion raised is still in its
\* loop afterwards.
C26_PublishFailureContained ==
  [][/\ PsPublishFailed => psState' = "running"
     /\ QsPublishFailed => qsState' = "running"]_vars

\* storage_service applies the event at its offset (a step of StConsume that wrote).
StApplies ==
  /\ stOff' = stOff + 1
  /\ updTopic[stOff + 1].user_id # NoUser

\* The event applied now equals the event applied just before it.
StSameAsLast ==
  /\ stOff >= 1
  /\ updTopic[stOff + 1].user_id = updTopic[stOff].user_id
  /\ updTopic[stOff + 1].positions = updTopic[stOff].positions

\* C29: applying a PORTFOLIO_UPDATED event of user U leaves U with the aggregated rows
\* of the event whatever U had before and leaves the rows of every other user as they
\* were; applying an event equal to the one applied just before changes nothing.
C29_IdempotentReplacement ==
  [][StApplies =>
       /\ store'[updTopic[stOff + 1].user_id] = write_rows(updTopic[stOff + 1].positions)
       /\ \A u \in Users \ {updTopic[stOff + 1].user_id} : store'[u] = store[u]
       /\ StSameAsLast => store' = store]_vars

\* C29 witness: the same event with positions was applied twice to user 2, who has
\* its rows, while user 1 has other rows.
C29_Witness ==
  /\ stOff = 2 /\ Len(updTopic) >= 2
  /\ updTopic[1].user_id = 2 /\ updTopic[2].user_id = 2
  /\ updTopic[1].positions # <<>>
  /\ updTopic[1].positions = updTopic[2].positions
  /\ store[2] = write_rows(updTopic[2].positions)
  /\ store[1] # {} /\ store[1] # store[2]

\* C30 (as claimed): a handler of summary_service whose last payload was malformed
\* dropped it: it makes no LLM call and no publish for it and has not ended with an
\* exception, it is at `async for` again (or was cancelled with the worker); and
\* notifications_consumer is in its loop after every envelope that does not parse,
\* having delivered nothing of it.
C30_MalformedDropped ==
  /\ \A t \in Tasks : sumShape[t] \in Malformed => sumPc[t] \in {"receive", "cancelled"}
  /\ \A i \in 1..ncOff :
       notifTopic[i].user_id = NoUser
         => /\ \A k \in 1..2 : <<i, k>> \notin delivered \cup undelivered
            /\ (i = ncOff => ncState = "running")

\* C31 (as claimed): no minute is queried by two ticks, and when a tick is about to
\* start, every minute before the current one was queried by a tick.
C31_EveryMinuteOnce ==
  /\ \A m \in 0..MaxMinutes : clkQueried[m] <= 1
  /\ clkPc = "tick" =>
       \A m \in 0..MaxMinutes : m < Minute(clkNow) => clkQueried[m] = 1

\* The sleep of 60 seconds separates two ticks by a minute at least: no minute is
\* queried by two ticks.
NoMinuteTwice == \A m \in 0..MaxMinutes : clkQueried[m] <= 1

\* One of the other two consumers is in the middle of a message or has ended.
OtherBusyOrEnded == \E c \in OtherConsumers : gtPc[c] \in {"busy", "ended"}

\* C32: while quotes_consumer or notifications_consumer is in the middle of a message
\* or has ended with an exception, portfolio_updated_consumer can take the next
\* completion, and every handler in its wait gets to the end of its render.
C32_GatewayTasksIndependent ==
  /\ [](OtherBusyOrEnded /\ gwState = "running" /\ gwOff < Len(updTopic)
          => ENABLED (LoopFree /\ GwConsume))
  /\ \A h \in Handlers :
       (OtherBusyOrEnded /\ hpc[h] = "wait") ~> (hpc[h] = "done" /\ renders[h] = 1)

\* C32 witness: quotes_consumer has ended with an exception, notifications_consumer
\* is in the middle of a message, and a handler whose wait was resolved by
\* portfolio_updated_consumer has rendered.
C32_Witness ==
  /\ gtPc["quotes_consumer"] = "ended" /\ gtPc["notifications_consumer"] = "busy"
  /\ \E h \in Handlers :
       hpc[h] = "done" /\ outcome[h] = "resolved" /\ renders[h] = 1

\* C33: an invocation of show_portfolio never ends with an exception, never renders
\* twice, and has rendered exactly once when it has ended, whichever way it went.
C33_ShowPortfolioRendersOnce ==
  \A h \in Handlers :
    hkind[h] = "show"
      => /\ hpc[h] # "raised"
         /\ renders[h] = (IF hpc[h] = "done" THEN 1 ELSE 0)

\* C33 witness: two invocations of show_portfolio have ended, one through the outer
\* `except Exception` (a request or the publish raised), one after its wait timed
\* out, each with one render.
C33_Witness ==
  \E h, g \in Handlers :
    /\ hkind[h] = "show" /\ hpc[h] = "done" /\ outcome[h] = "except" /\ renders[h] = 1
    /\ hkind[g] = "show" /\ hpc[g] = "done" /\ outcome[g] = "timeout" /\ renders[g] = 1

RECURSIVE QuantityOf(_, _, _)
\* The sum of the quantities of positions[1..n] whose ticker is t.
QuantityOf(positions, n, t) ==
  IF n = 0 THEN 0
  ELSE QuantityOf(positions, n - 1, t)
         + (IF positions[n].ticker = t THEN positions[n].quantity ELSE 0)

\* The tickers that occur in the positions and are not empty.
TickersOf(positions) == {positions[i].ticker : i \in 1..Len(positions)} \ {""}

C35_FailedRefreshKeepsRows ==
  [][(StApplies /\ reqTopic[stOff + 1].token = None)
       => store'[updTopic[stOff + 1].user_id] = get_portfolio(updTopic[stOff + 1].user_id)]_vars

\* The handler left its body with an exception after taking a correlation id, and
\* no command with that id is on PORTFOLIO_REQUEST: its publish raised.
PublishFailed(h) ==
  /\ hcorr[h] # None
  /\ outcome[h] \in {"except", "raised"}
  /\ \A i \in 1..Len(reqTopic) : reqTopic[i].correlation_id # hcorr[h]

\* C36 (as claimed): the correlation id of a command whose publish raised is no key of
\* pending_portfolio_updates.
C36_FailedPublishDeregisters ==
  \A h \in Handlers : PublishFailed(h) => pending[hcorr[h]] = NoFut

\* The progress message of handler h was sent and the handler reaches its wait_for.
ReachesWait(h) ==
  /\ hpc[h] = "answer" /\ hpc'[h] # "answer"
  /\ outcome'[h] \notin {"except", "raised"}

\* C37: a handler that reaches its wait_for after the completion with its correlation
\* id was consumed does not enter the wait: it goes on to render at once, no
\* exception leaves it and it never gets the timeout.
C37_EarlyCompletionNoWait ==
  /\ [][\A h \in Handlers :
          (ReachesWait(h) /\ ConsumedFor(hcorr[h]) # {})
            => (hpc'[h] = "render" /\ outcome'[h] = "nofuture")]_vars
  /\ [](\A h \in Handlers :
          outcome[h] = "nofuture"
            => /\ hpc[h] \in {"render", "done"}
               /\ renders[h] = (IF hpc[h] = "done" THEN 1 ELSE 0))

\* C37 witness: the completion of a handler was consumed while the handler sent its
\* progress message; the handler did not wait and has rendered.
C37_Witness ==
  \E h \in Handlers :
    /\ outcome[h] = "nofuture" /\ hpc[h] = "done" /\ renders[h] = 1
    /\ ConsumedFor(hcorr[h]) # {}

\* The i-th completion answers the i-th request: same user and correlation id, and no
\* positions when the fetch failed for lack of a token.
AnswersRequest(i) ==
  /\ updTopic[i].user_id = reqTopic[i].user_id
  /\ updTopic[i].correlation_id = reqTopic[i].correlation_id
  /\ reqTopic[i].token = None => updTopic[i].positions = <<>>

\* The requests whose loop body the worker has run to its end: all it took, but the
\* last one when the publish of its completion raised and ended the worker.
Processed == IF psState = "running" THEN psOff ELSE psOff - 1

C39_NotifyAfterCommit ==
  [][/\ notifTopic' # notifTopic
          => /\ StApplies
             /\ store'[updTopic[stOff + 1].user_id] = write_rows(updTopic[stOff + 1].positions)
             /\ notifTopic' = Append(notifTopic, notifTopic'[Len(notifTopic')])
             /\ notifTopic'[Len(notifTopic')].user_id = updTopic[stOff + 1].user_id
             /\ notifTopic'[Len(notifTopic')].inserted
                  = Cardinality(store'[updTopic[stOff + 1].user_id])
     /\ (StApplies /\ notifTopic' = notifTopic)
          => /\ store'[updTopic[stOff + 1].user_id] = write_rows(updTopic[stOff + 1].positions)
             /\ stState' = "running"
     /\ stState' = "dead" => (notifTopic' = notifTopic /\ store' = store)]_vars

\* C39 witness: two events with positions were written; the notification of one of
\* them failed, the other one was published, and the consumer is in its loop.
C39_Witness ==
  /\ stState = "running" /\ stOff = 2 /\ Len(notifTopic) = 1
  /\ updTopic[1].user_id # NoUser /\ updTopic[2].user_id # NoUser
  /\ updTopic[2].positions # <<>>
  /\ store[updTopic[2].user_id] = write_rows(updTopic[2].positions)

\* C40 (as claimed): a handler of summary_service that has made its LLM calls for a
\* valid request goes on to publish one envelope, whatever the calls returned.
C40_SummaryAlwaysPublishes ==
  [][\A t \in Tasks :
       (sumPc[t] = "llm" /\ sumPc'[t] # "llm" /\ sumShape[t] = "valid")
         => sumPc'[t] = "publish"]_vars

====
